---------------------------- MODULE Spec2Model ----------------------------
(***************************************************************************)
(* A model of the OSL-nodes shader generator (OslNodesShaderGenerator, in  *)
(* its two revisions: target "genoslnodes" and target "genosl") and of the *)
(* batch driver LibsToOso.                                                 *)
(*                                                                         *)
(* Names are sequences of one-character strings, so that prefix stripping, *)
(* concatenation and identifier sanitisation are computed, not assumed.    *)
(* An emitted line is a record holding the fields that paramString,        *)
(* connectString and the "shader ..." concatenation put between the fixed  *)
(* words of the line.                                                      *)
(***************************************************************************)
EXTENDS Naturals, Sequences, FiniteSets

\* ------------------------------------------------------------------------
\* Names used by the model
\* ------------------------------------------------------------------------

Str_in == <<"i", "n">>
Str_colon == <<"a", ":", "b">>
Str_backsurfaceshader ==
    <<"b","a","c","k","s","u","r","f","a","c","e","s","h","a","d","e","r">>
Str_displacementshader ==
    <<"d","i","s","p","l","a","c","e","m","e","n","t","s","h","a","d","e","r">>
Str_out == <<"o", "u", "t">>
Str_float == <<"f", "l", "o", "a", "t">>
Str_BSDF == <<"B", "S", "D", "F">>
Str_closure == <<"c","l","o","s","u","r","e"," ","c","o","l","o","r">>
Str_input == <<"_", "i", "n", "p", "u", "t">>
Str_root == <<"r", "o", "o", "t">>
Str_setCi == <<"s", "e", "t", "C", "i">>
Str_ND == <<"N", "D", "_">>
Str_empty == <<>>

\* The characters Syntax::makeValidName replaces: MaterialX names hold letters,
\* digits, '_' and ':', and of these only ':' is no identifier character.
InvalidChars == {":", " ", ".", "-"}

\* Syntax::makeValidName: every invalid character becomes '_'.
makeValidName(name) ==
    [i \in 1..Len(name) |-> IF name[i] \in InvalidChars THEN "_" ELSE name[i]]

\* The value a port without a literal resolves to: the default of its type
\* (Syntax::getValue falls back to Syntax::getDefaultValue).
NoValue == "none"
NullClosure == "null_closure()"

getDefaultValue(type) == IF type = Str_BSDF THEN NullClosure ELSE "0.0"

\* Syntax::getValue(input).
getValue(input) ==
    IF input.value # NoValue THEN input.value ELSE getDefaultValue(input.type)

\* Syntax::getTypeName(type).
getTypeName(type) == IF type = Str_BSDF THEN Str_closure ELSE type

\* StripND without the test that something follows the prefix.
StripNDNoLength(nodeDefName) ==
    IF Len(nodeDefName) >= 3 /\ SubSeq(nodeDefName, 1, 3) = Str_ND
    THEN SubSeq(nodeDefName, 4, Len(nodeDefName))
    ELSE nodeDefName

\* Removal of the "ND_" prefix of a NodeDef name.
StripND(nodeDefName) ==
    IF Len(nodeDefName) > 3 /\ SubSeq(nodeDefName, 1, 3) = Str_ND
    THEN SubSeq(nodeDefName, 4, Len(nodeDefName))
    ELSE nodeDefName

\* ------------------------------------------------------------------------
\* Emitted lines
\* ------------------------------------------------------------------------

paramString(paramType, paramName, paramValue) ==
    [kind |-> "param", type |-> paramType, name |-> paramName, value |-> paramValue]

connectString(fromNode, fromName, toNode, toName) ==
    [kind |-> "connect", fromNode |-> fromNode, fromName |-> fromName,
     toNode |-> toNode, toName |-> toName]

\* shaderString with the entry point written where the instance name belongs.
shaderStringEntryTwice(entryPoint, instanceName) ==
    [kind |-> "shader", entry |-> entryPoint, inst |-> entryPoint]

shaderString(entryPoint, instanceName) ==
    [kind |-> "shader", entry |-> entryPoint, inst |-> instanceName]


\* ------------------------------------------------------------------------
\* The graph handed to generate
\* ------------------------------------------------------------------------

\* The most inputs a graph holds, over all of its nodes.
MaxInputs == 1

\* The nodes a graph is built from, in graph order: name, NodeDef and primary
\* output of the i-th node.
NodeNames == << <<"A">>, <<"B">> >>
NodeDefNames == << Str_ND \o <<"a">>, Str_ND \o <<"b">> >>
NodeOutputs == << [name |-> Str_out, type |-> Str_float],
                  [name |-> Str_colon, type |-> Str_BSDF] >>

InputNames == {Str_in, Str_colon, Str_backsurfaceshader}

\* Type and literal of an input: a float with a literal, a float without one,
\* a closure (which never carries a literal).
InputShapes == {[type |-> Str_float, value |-> "1.0"],
                [type |-> Str_float, value |-> NoValue],
                [type |-> Str_BSDF, value |-> NoValue]}

\* What ShaderInput::getConnection returns: null, an input socket of the graph
\* itself, or the primary output of another node of the graph.
NullConnection == [kind |-> "null", node |-> 0]
GraphConnection == [kind |-> "graph", node |-> 0]
Connections(n, self) ==
    {NullConnection, GraphConnection}
        \cup {[kind |-> "node", node |-> j] : j \in (1..n) \ {self}}

Inputs(n, self) ==
    {[name |-> nm, type |-> sh.type, value |-> sh.value, isDefault |-> d, conn |-> c] :
        nm \in InputNames, sh \in InputShapes, d \in BOOLEAN, c \in Connections(n, self)}

MakeNode(i, ins) ==
    [name |-> NodeNames[i], nodeDefName |-> NodeDefNames[i],
     inputs |-> ins, output |-> NodeOutputs[i]]

\* The lists of c inputs a node can hold: the inputs of a node have distinct names.
InputLists(n, self, c) ==
    {ins \in [1..c -> Inputs(n, self)] :
        \A a, b \in 1..c : ins[a].name = ins[b].name => a = b}

\* The node sequences i..n of a graph of n nodes that hold at most k inputs.
RECURSIVE GraphTails(_, _, _)
GraphTails(n, i, k) ==
    IF i > n THEN {<<>>}
    ELSE UNION {{<<MakeNode(i, ins)>> \o t :
                    ins \in InputLists(n, i, c), t \in GraphTails(n, i + 1, k - c)} :
                c \in 0..k}

Graphs == UNION {GraphTails(n, 1, MaxInputs) : n \in 0..Len(NodeNames)}

\* What NodeDef::getImplementation(target) finds for a NodeDef: an
\* Implementation element, a NodeGraph (which asA<Implementation> turns into
\* null), or nothing (a null pointer).
ImplFunction(nodeDefName) == <<"m", "x", "_">> \o StripND(nodeDefName)
ImplFile(nodeDefName) == StripND(nodeDefName) \o <<".", "o", "s", "l">>
ImplKinds == {"impl", "nodegraph", "none"}
Documents(g) ==
    [{g[i].nodeDefName : i \in 1..Len(g)} -> ImplKinds]

Variants == {"genoslnodes", "genosl"}

VARIABLES
    variant,        \* which revision of generate runs
    sinkFlag,       \* context.getOptions().oslNodesConnectCiWrapper
    graph,          \* shader->getGraph().getNodes()
    document,       \* NodeDef name -> what getImplementation finds
    stage,          \* the lines emitted to the pixel stage so far
    connections,    \* the deferred connect lines
    osoPaths,       \* the set of implementation files
    lastNodeName,
    lastOutput,
    nodeIdx,        \* position of the outer loop
    inputIdx,       \* position of the inner loop
    gpc,            \* where generate stands
    result,         \* "running", "shader", "null" (nullptr returned), "crash"
    osoPath,        \* the "osoPath" attribute of the returned shader
    history,        \* what each round of the inner loop did, in order
    previous        \* what the call of generate before this one came to

VARIABLES
    argPaths,       \* what --outputPath, --oslCompilerPath and --oslIncludePath
                    \* name on disk, and whether main made the output directory
    catalog,        \* librariesDoc->getNodeDefs(): name and whether the NodeDef has
                    \* an implementation for the generator's target
    argPrefix,      \* --prefix
    instances,      \* the node instances held by librariesDoc
    bpc,            \* where main stands
    defIdx,         \* position of the loop over the NodeDefs
    nodeName,       \* the name derived for the current NodeDef
    logState,       \* "unopened", "open", "closed"
    logFile,        \* the entries written to the log file
    hasFailed,
    oslFiles,       \* the .osl files this run has written
    osoFiles,       \* the .oso files this run's compiler calls have produced
    librariesLoaded,
    exitCode,       \* "none", "0", "1", "terminate" (uncaught exception)
    events          \* the steps taken for each NodeDef, in order

VARIABLES
    inputSockets,   \* graph->getInputSockets(): name, number of connections, and
                    \* whether graph->isEditable holds for the socket
    outputSockets,  \* graph->getOutputSockets(): name and whether it is connected
    uniformBlock,   \* the blocks of the pixel stage: whether the block exists
                    \* and the names of the ports added to it
    inputBlock,
    outputBlock,
    socketIdx,      \* position of the loop over the sockets
    spc             \* where createShader stands

shaderVars == <<inputSockets, outputSockets, uniformBlock, inputBlock, outputBlock,
                socketIdx, spc>>

batchVars == <<argPaths, catalog, argPrefix, instances, bpc, defIdx, nodeName,
               logState,
               logFile, hasFailed, oslFiles, osoFiles, librariesLoaded, exitCode,
               events>>

genVars == <<variant, sinkFlag, graph, document, stage, connections, osoPaths,
             lastNodeName, lastOutput, nodeIdx, inputIdx, gpc, result, osoPath,
             history, previous, shaderVars>>

vars == <<genVars, batchVars>>

Uninitialized == [valid |-> FALSE, name |-> Str_empty, type |-> Str_empty]

\* No call of generate before this one.
NoRun == [variant |-> "none", result |-> "none", stage |-> <<>>, osoPath |-> <<>>]

\* A block the stage does not have, and a block as createUniformBlock,
\* createInputBlock and createOutputBlock make it.
NoBlock == [exists |-> FALSE, ports |-> <<>>]
EmptyBlock == [exists |-> TRUE, ports |-> <<>>]

\* createShader not under observation.
ShaderIdle ==
    /\ inputSockets = <<>>
    /\ outputSockets = <<>>
    /\ uniformBlock = NoBlock
    /\ inputBlock = NoBlock
    /\ outputBlock = NoBlock
    /\ socketIdx = 1
    /\ spc = "idle"

\* The batch driver not started (the generator is run on its own).
BatchIdle ==
    /\ argPaths = [outputDir |-> "directory", compilerExists |-> TRUE,
                includeIsDir |-> TRUE, made |-> FALSE]
    /\ catalog = <<>>
    /\ argPrefix = Str_empty
    /\ instances = {}
    /\ bpc = "idle"
    /\ defIdx = 1
    /\ nodeName = Str_empty
    /\ logState = "unopened"
    /\ logFile = <<>>
    /\ hasFailed = FALSE
    /\ oslFiles = {}
    /\ osoFiles = {}
    /\ librariesLoaded = FALSE
    /\ exitCode = "none"
    /\ events = <<>>

\* The generator not started (the batch driver is run on its own).
GenIdle ==
    /\ variant = "genosl"
    /\ sinkFlag = FALSE
    /\ graph = <<>>
    /\ document = <<>>
    /\ stage = <<>>
    /\ connections = <<>>
    /\ osoPaths = {}
    /\ lastNodeName = Str_empty
    /\ lastOutput = Uninitialized
    /\ nodeIdx = 1
    /\ inputIdx = 1
    /\ gpc = "idle"
    /\ result = "running"
    /\ osoPath = <<>>
    /\ history = <<>>
    /\ previous = NoRun
    /\ ShaderIdle

\* Where the outer loop stands when it reaches node i.
EnterNode(g, i) ==
    IF i > Len(g) THEN "flush"
    ELSE IF Len(g[i].inputs) = 0 THEN "declare" ELSE "input"

InitGen ==
    /\ variant \in Variants
    /\ sinkFlag \in BOOLEAN
    /\ graph \in Graphs
    /\ document \in Documents(graph)
    /\ stage = <<>>
    /\ connections = <<>>
    /\ osoPaths = {}
    /\ lastNodeName = Str_empty
    /\ lastOutput = Uninitialized
    /\ nodeIdx = 1
    /\ inputIdx = 1
    /\ gpc = EnterNode(graph, 1)
    /\ result = "running"
    /\ osoPath = <<>>
    /\ history = <<>>
    /\ previous = NoRun
    /\ ShaderIdle
    /\ BatchIdle

\* ------------------------------------------------------------------------
\* OslNodesShaderGenerator::generate
\* ------------------------------------------------------------------------

ExcludedNames == {Str_backsurfaceshader, Str_displacementshader}

\* What the inner loop does with one input: nothing ("skip"), one param line
\* emitted now, one connect line put on the deferred list, or a read through a
\* null pointer ("null").
Skip == [kind |-> "skip", lines |-> <<>>]
EmitParam(line) == [kind |-> "param", lines |-> <<line>>]
DeferConnect(line) == [kind |-> "connect", lines |-> <<line>>]
NullRead == [kind |-> "null", lines |-> <<>>]

\* The literal branch of the "genoslnodes" revision.
ParamEffectNodes(input) ==
    IF input.name \in ExcludedNames THEN Skip
    ELSE IF getValue(input) = NullClosure THEN Skip
    ELSE EmitParam(paramString(getTypeName(input.type), makeValidName(input.name),
                               getValue(input)))

\* ConnectEffectNodes with the connect line emitted at once instead of saved
\* for the end.
ConnectEffectNodesEager(g, node, input) ==
    EmitParam(connectString(g[input.conn.node].name,
                            makeValidName(g[input.conn.node].output.name),
                            node.name, makeValidName(input.name)))

\* The connection branch of the "genoslnodes" revision.
ConnectEffectNodes(g, node, input) ==
    DeferConnect(connectString(g[input.conn.node].name,
                               makeValidName(g[input.conn.node].output.name),
                               node.name, makeValidName(input.name)))

\* InputEffectNodes with the isDefault test made on the literal branch only.
InputEffectNodesDefaultLate(g, node, input) ==
    IF input.conn.kind = "null" \/ input.conn.kind = "graph"
    THEN IF input.isDefault THEN Skip ELSE ParamEffectNodes(input)
    ELSE ConnectEffectNodes(g, node, input)

\* The body of the inner loop, "genoslnodes" revision.
InputEffectNodes(g, node, input) ==
    IF input.isDefault THEN Skip
    ELSE IF input.conn.kind = "null" \/ input.conn.kind = "graph"
         THEN ParamEffectNodes(input)
         ELSE ConnectEffectNodes(g, node, input)

\* The literal branch of the "genosl" revision.
ParamEffectOsl(input) ==
    IF input.name \in ExcludedNames THEN Skip
    ELSE EmitParam(paramString(getTypeName(input.type), input.name, getValue(input)))

\* The connection branch of the "genosl" revision.
ConnectEffectOsl(g, node, input) ==
    DeferConnect(connectString(g[input.conn.node].name, g[input.conn.node].output.name,
                               node.name, input.name))

\* The body of the inner loop, "genosl" revision: connection->getNode() is
\* called on whatever getConnection returned.
InputEffectOsl(g, node, input) ==
    IF input.value = NoValue THEN Skip
    ELSE IF input.isDefault THEN Skip
    ELSE IF input.conn.kind = "null" THEN NullRead
    ELSE IF input.conn.kind = "graph" THEN ParamEffectOsl(input)
    ELSE ConnectEffectOsl(g, node, input)

InputEffect(v, g, node, input) ==
    IF v = "genoslnodes" THEN InputEffectNodes(g, node, input)
    ELSE InputEffectOsl(g, node, input)

\* What a read through the null connection can come to: the process dies, or
\* the comparison with &graph reads as true and the literal branch runs.
NullReadOutcomes(input) == {[kind |-> "crash", lines |-> <<>>], ParamEffectOsl(input)}

\* One round of the inner loop.
ProcessInput ==
    /\ gpc = "input"
    /\ LET node == graph[nodeIdx]
           input == node.inputs[inputIdx]
           eff == InputEffect(variant, graph, node, input)
       IN \E out \in (IF eff.kind = "null" THEN NullReadOutcomes(input) ELSE {eff}) :
            /\ history' = Append(history, [node |-> nodeIdx, input |-> inputIdx,
                                           kind |-> out.kind, lines |-> out.lines])
            /\ IF out.kind = "crash"
               THEN /\ result' = "crash"
                    /\ gpc' = "done"
                    /\ UNCHANGED <<stage, connections, inputIdx>>
               ELSE /\ stage' = IF out.kind = "param" THEN stage \o out.lines ELSE stage
                    /\ connections' = IF out.kind = "connect"
                                      THEN connections \o out.lines ELSE connections
                    /\ IF inputIdx < Len(node.inputs)
                       THEN inputIdx' = inputIdx + 1 /\ gpc' = "input"
                       ELSE inputIdx' = 1 /\ gpc' = "declare"
                    /\ UNCHANGED result
    /\ UNCHANGED <<variant, sinkFlag, graph, document, osoPaths, lastNodeName,
                   lastOutput, nodeIdx, osoPath>>
    /\ UNCHANGED previous
    /\ UNCHANGED shaderVars
    /\ UNCHANGED batchVars

\* insert that keeps a set of one path as it is.
insertFirstOnly(paths, path) == IF paths = {} THEN {path} ELSE paths

\* std::set<std::string>::insert.
insert(paths, path) == paths \cup {path}

\* asImplementation with the result of the cast never tested.
asImplementationUnchecked(kind) == TRUE

\* asA<Implementation>() of a non-null element: non-null for an Implementation.
asImplementation(kind) == kind = "impl"

\* What the lookup of the node's implementation comes to in the "genoslnodes"
\* revision: "ok", "null" (nullptr is returned) or "crash".  asA is called on
\* the pointer getImplementation returned, so a NodeDef with no implementation
\* at all is a call through a null pointer: the process dies, or the call
\* yields null and the check that follows returns nullptr.
ImplOutcomes(kind) ==
    IF kind = "none" THEN {"crash", "null"}
    ELSE IF asImplementation(kind) THEN {"ok"} ELSE {"null"}

\* The tail of the outer loop body, "genoslnodes" revision.
DeclareNodeNodes ==
    /\ gpc = "declare"
    /\ variant = "genoslnodes"
    /\ LET node == graph[nodeIdx] IN
        /\ lastOutput' = [valid |-> TRUE, name |-> node.output.name,
                          type |-> node.output.type]
        /\ \E out \in ImplOutcomes(document[node.nodeDefName]) :
            IF out = "ok"
            THEN /\ osoPaths' = insert(osoPaths, ImplFile(node.nodeDefName))
                 /\ stage' = Append(stage, shaderString(ImplFunction(node.nodeDefName),
                                                        node.name))
                 /\ lastNodeName' = node.name
                 /\ nodeIdx' = nodeIdx + 1
                 /\ gpc' = EnterNode(graph, nodeIdx + 1)
                 /\ UNCHANGED result
            ELSE /\ result' = out
                 /\ gpc' = "done"
                 /\ UNCHANGED <<osoPaths, stage, lastNodeName, nodeIdx>>
    /\ UNCHANGED <<variant, sinkFlag, graph, document, connections, inputIdx, osoPath,
                   history>>
    /\ UNCHANGED previous
    /\ UNCHANGED shaderVars
    /\ UNCHANGED batchVars

\* The tail of the outer loop body, "genosl" revision.
DeclareNodeOsl ==
    /\ gpc = "declare"
    /\ variant = "genosl"
    /\ LET node == graph[nodeIdx] IN
        /\ stage' = Append(stage, shaderString(StripND(node.nodeDefName), node.name))
        /\ nodeIdx' = nodeIdx + 1
        /\ gpc' = EnterNode(graph, nodeIdx + 1)
    /\ UNCHANGED <<variant, sinkFlag, graph, document, connections, osoPaths,
                   lastNodeName, lastOutput, inputIdx, result, osoPath, history>>
    /\ UNCHANGED previous
    /\ UNCHANGED shaderVars
    /\ UNCHANGED batchVars

\* EmitConnections with every deferred line emitted a second time.
EmitConnectionsTwice(st, conns) == st \o conns \o conns

\* The loop over the deferred connect lines.
EmitConnections(st, conns) == st \o conns

\* Whether the code after the connect lines appends the setCi wrapper.
WantsSink(v, flag) == v = "genoslnodes" /\ flag

FlushConnections ==
    /\ gpc = "flush"
    /\ stage' = EmitConnections(stage, connections)
    /\ gpc' = IF WantsSink(variant, sinkFlag) THEN "sink"
              ELSE IF variant = "genoslnodes" THEN "attr" ELSE "return"
    /\ UNCHANGED <<variant, sinkFlag, graph, document, connections, osoPaths,
                   lastNodeName, lastOutput, nodeIdx, inputIdx, result, osoPath, history>>
    /\ UNCHANGED previous
    /\ UNCHANGED shaderVars
    /\ UNCHANGED batchVars

\* What lastOutput points to when the wrapper is emitted: the primary output
\* of the last node, or, after a loop that never ran, whatever the
\* uninitialised pointer holds.
GarbageOutputs == {[valid |-> FALSE, name |-> <<"?">>, type |-> <<"?">>]}

SinkLines(lastName, out) ==
    << shaderString(Str_setCi, Str_root),
       connectString(lastName, out.name, Str_root, out.type \o Str_input) >>

EmitSink ==
    /\ gpc = "sink"
    /\ \/ /\ lastOutput.valid
          /\ stage' = stage \o SinkLines(lastNodeName, lastOutput)
          /\ gpc' = "attr"
          /\ UNCHANGED result
       \/ /\ ~lastOutput.valid
          /\ \E out \in GarbageOutputs :
                stage' = stage \o SinkLines(lastNodeName, out)
          /\ gpc' = "attr"
          /\ UNCHANGED result
       \/ /\ ~lastOutput.valid
          /\ result' = "crash"
          /\ gpc' = "done"
          /\ UNCHANGED stage
    /\ UNCHANGED <<variant, sinkFlag, graph, document, connections, osoPaths,
                   lastNodeName, lastOutput, nodeIdx, inputIdx, osoPath, history>>
    /\ UNCHANGED previous
    /\ UNCHANGED shaderVars
    /\ UNCHANGED batchVars

\* The characters of the model's names in the order of their codes, which is
\* the order std::set<std::string> keeps its elements in.
Alphabet == <<" ", ".", "/", "1", ":", "?", "A", "B", "C", "D", "F", "N", "S", "_",
              "a", "b", "c", "d", "e", "f", "h", "i", "k", "l", "m", "n", "o",
              "p", "r", "s", "t", "u", "x">>

CharCode(c) == CHOOSE i \in 1..Len(Alphabet) : Alphabet[i] = c

\* std::string's operator<.
RECURSIVE StringLess(_, _)
StringLess(a, b) ==
    IF Len(b) = 0 THEN FALSE
    ELSE IF Len(a) = 0 THEN TRUE
    ELSE IF a[1] # b[1] THEN CharCode(a[1]) < CharCode(b[1])
    ELSE StringLess(Tail(a), Tail(b))

\* GenContext::resolveSourceFile: the path under the search root it is found in.
SearchRoot == <<"/">>
resolveSourceFile(path) == SearchRoot \o path

\* The loop that joins the resolved paths, in the order of the set.
RECURSIVE JoinPaths(_, _)
JoinPaths(paths, separator) ==
    IF paths = {} THEN <<>>
    ELSE LET first == CHOOSE p \in paths : \A q \in paths \ {p} : StringLess(p, q)
         IN separator \o resolveSourceFile(first) \o JoinPaths(paths \ {first}, <<",">>)

\* The end of the "genoslnodes" revision: the attribute is set and the shader
\* returned.
SetAttribute ==
    /\ gpc = "attr"
    /\ osoPath' = JoinPaths(osoPaths, <<>>)
    /\ result' = "shader"
    /\ gpc' = "done"
    /\ UNCHANGED <<variant, sinkFlag, graph, document, stage, connections, osoPaths,
                   lastNodeName, lastOutput, nodeIdx, inputIdx, history>>
    /\ UNCHANGED previous
    /\ UNCHANGED shaderVars
    /\ UNCHANGED batchVars

\* The end of the "genosl" revision.
ReturnShader ==
    /\ gpc = "return"
    /\ result' = "shader"
    /\ gpc' = "done"
    /\ UNCHANGED <<variant, sinkFlag, graph, document, stage, connections, osoPaths,
                   lastNodeName, lastOutput, nodeIdx, inputIdx, osoPath, history>>
    /\ UNCHANGED previous
    /\ UNCHANGED shaderVars
    /\ UNCHANGED batchVars

NextGen ==
    \/ ProcessInput
    \/ DeclareNodeNodes
    \/ DeclareNodeOsl
    \/ FlushConnections
    \/ EmitSink
    \/ SetAttribute
    \/ ReturnShader

SpecGen == InitGen /\ [][NextGen]_vars

\* The text generate hands to its caller: the stage of the returned shader.
Delivered == IF result = "shader" THEN stage ELSE <<>>

\* ------------------------------------------------------------------------
\* Calls of generate on graphs whose nodes share NodeDefs, and repeated calls
\* ------------------------------------------------------------------------

\* The most nodes of such a graph.
MaxNodes == 3

RunNodeNames == << <<"A">>, <<"B">>, <<"C">>, <<"D">>, <<"E">> >>
RunNodeDefs == {NodeDefNames[i] : i \in 1..Len(NodeDefNames)}

MakeRunNode(i, nodeDefName, ins) ==
    [name |-> RunNodeNames[i], nodeDefName |-> nodeDefName,
     inputs |-> ins, output |-> NodeOutputs[1]]

\* The inputs such a graph holds: named "in", not marked has-default.
RunInputs(n, self) ==
    {input \in Inputs(n, self) : input.name = Str_in /\ ~input.isDefault}

\* The graphs of n nodes, in every order of their NodeDefs, without inputs and
\* with one input on one node.
NoInputGraphs(n) ==
    {[i \in 1..n |-> MakeRunNode(i, defs[i], <<>>)] : defs \in [1..n -> RunNodeDefs]}

OneInputGraphs(n) ==
    UNION {{[g EXCEPT ![at].inputs = <<input>>] :
                input \in RunInputs(n, at), g \in NoInputGraphs(n)} : at \in 1..n}

RunGraphs == UNION {NoInputGraphs(n) \cup OneInputGraphs(n) : n \in 0..MaxNodes}

InitRuns ==
    /\ variant \in Variants
    /\ sinkFlag \in BOOLEAN
    /\ graph \in RunGraphs
    /\ document \in Documents(graph)
    /\ stage = <<>>
    /\ connections = <<>>
    /\ osoPaths = {}
    /\ lastNodeName = Str_empty
    /\ lastOutput = Uninitialized
    /\ nodeIdx = 1
    /\ inputIdx = 1
    /\ gpc = EnterNode(graph, 1)
    /\ result = "running"
    /\ osoPath = <<>>
    /\ history = <<>>
    /\ previous = NoRun
    /\ ShaderIdle
    /\ BatchIdle

\* The caller, after a call of generate that returned, calls generate again on
\* the same element with the same options, with the generator of either
\* target.  createShader builds a new Shader and every local of generate starts
\* afresh.
GenerateAgain ==
    /\ gpc = "done"
    /\ result \in {"shader", "null"}
    /\ previous = NoRun
    /\ previous' = [variant |-> variant, result |-> result, stage |-> Delivered,
                    osoPath |-> osoPath]
    /\ \E v \in Variants : variant' = v
    /\ stage' = <<>>
    /\ connections' = <<>>
    /\ osoPaths' = {}
    /\ lastNodeName' = Str_empty
    /\ lastOutput' = Uninitialized
    /\ nodeIdx' = 1
    /\ inputIdx' = 1
    /\ gpc' = EnterNode(graph, 1)
    /\ result' = "running"
    /\ osoPath' = <<>>
    /\ history' = <<>>
    /\ UNCHANGED <<sinkFlag, graph, document>>
    /\ UNCHANGED shaderVars
    /\ UNCHANGED batchVars

NextRuns ==
    \/ ProcessInput
    \/ DeclareNodeNodes
    \/ DeclareNodeOsl
    \/ FlushConnections
    \/ EmitSink
    \/ SetAttribute
    \/ ReturnShader
    \/ GenerateAgain

SpecRuns == InitRuns /\ [][NextRuns]_vars

\* ------------------------------------------------------------------------
\* Calls of generate on graphs with several connected inputs
\* ------------------------------------------------------------------------

\* The nodes of such a graph, and the inputs a node of it can have, in
\* declared order.
WiredNodeNames == << <<"A">>, <<"B">>, <<"C">> >>
WiredInputNames == << Str_in, Str_colon >>

\* An input of such a graph: a float with a literal, not marked has-default,
\* connected to the graph boundary or to another node.
WiredInput(j, c) ==
    [name |-> WiredInputNames[j], type |-> Str_float, value |-> "1.0",
     isDefault |-> FALSE, conn |-> c]

WiredConnections(n, self) == Connections(n, self) \ {NullConnection}

WiredInputLists(n, self) ==
    UNION {{[j \in 1..c |-> WiredInput(j, conns[j])] :
                conns \in [1..c -> WiredConnections(n, self)]} :
            c \in 0..Len(WiredInputNames)}

WiredNode(i, ins) ==
    [name |-> WiredNodeNames[i], nodeDefName |-> NodeDefNames[((i - 1) % 2) + 1],
     inputs |-> ins, output |-> NodeOutputs[((i - 1) % 2) + 1]]

WiredGraphs ==
    UNION {{[i \in 1..n |-> WiredNode(i, ins[i])] :
                ins \in {f \in [1..n -> UNION {WiredInputLists(n, k) : k \in 1..n}] :
                            \A i \in 1..n : f[i] \in WiredInputLists(n, i)}} :
           n \in 0..Len(WiredNodeNames)}

InitWired ==
    /\ variant \in Variants
    /\ sinkFlag \in BOOLEAN
    /\ graph \in WiredGraphs
    /\ document = [d \in {graph[i].nodeDefName : i \in 1..Len(graph)} |-> "impl"]
    /\ stage = <<>>
    /\ connections = <<>>
    /\ osoPaths = {}
    /\ lastNodeName = Str_empty
    /\ lastOutput = Uninitialized
    /\ nodeIdx = 1
    /\ inputIdx = 1
    /\ gpc = EnterNode(graph, 1)
    /\ result = "running"
    /\ osoPath = <<>>
    /\ history = <<>>
    /\ previous = NoRun
    /\ ShaderIdle
    /\ BatchIdle

SpecWired == InitWired /\ [][NextGen]_vars

\* ------------------------------------------------------------------------
\* OslNodesShaderGenerator::createShader
\* ------------------------------------------------------------------------

\* The most sockets of either kind on the graph.
MaxSockets == 2

InputSocketNames == << <<"i", "1">>, <<"i", "2">>, <<"i", "3">>, <<"i", "4">> >>
OutputSocketNames == << <<"o", "1">>, <<"o", "2">>, <<"o", "3">>, <<"o", "4">> >>

\* inputSocket->getConnections().size(): used by no node, by one, by several.
ConnectionCounts == {0, 1, 2}

InputSocketLists(n) ==
    {[i \in 1..n |-> [name |-> InputSocketNames[i], connections |-> c[i],
                      editable |-> e[i]]] :
        c \in [1..n -> ConnectionCounts], e \in [1..n -> BOOLEAN]}

OutputSocketLists(n) ==
    {[i \in 1..n |-> [name |-> OutputSocketNames[i], connected |-> c[i]]] :
        c \in [1..n -> BOOLEAN]}

InitShader ==
    /\ inputSockets \in UNION {InputSocketLists(n) : n \in 0..MaxSockets}
    /\ outputSockets \in UNION {OutputSocketLists(n) : n \in 0..MaxSockets}
    /\ uniformBlock = NoBlock
    /\ inputBlock = NoBlock
    /\ outputBlock = NoBlock
    /\ socketIdx = 1
    /\ spc = "create"
    /\ variant \in Variants
    /\ sinkFlag = FALSE
    /\ graph = <<>>
    /\ document = <<>>
    /\ stage = <<>>
    /\ connections = <<>>
    /\ osoPaths = {}
    /\ lastNodeName = Str_empty
    /\ lastOutput = Uninitialized
    /\ nodeIdx = 1
    /\ inputIdx = 1
    /\ gpc = "idle"
    /\ result = "running"
    /\ osoPath = <<>>
    /\ history = <<>>
    /\ previous = NoRun
    /\ BatchIdle

genLocals == <<variant, sinkFlag, graph, document, stage, connections, osoPaths,
               lastNodeName, lastOutput, nodeIdx, inputIdx, gpc, result, osoPath,
               history, previous>>

\* VariableBlock::add: the port is appended unless the block holds its name.
add(block, name) ==
    IF \E i \in 1..Len(block.ports) : block.ports[i] = name THEN block
    ELSE [block EXCEPT !.ports = Append(block.ports, name)]

\* createStage and the three blocks.
CreateStage ==
    /\ spc = "create"
    /\ uniformBlock' = EmptyBlock
    /\ inputBlock' = EmptyBlock
    /\ outputBlock' = EmptyBlock
    /\ spc' = "variables"
    /\ UNCHANGED <<inputSockets, outputSockets, socketIdx>>
    /\ UNCHANGED <<genLocals, batchVars>>

\* createVariables: the nodes' implementations add the variables they need;
\* none of them is a socket of the graph.
CreateVariables ==
    /\ spc = "variables"
    /\ socketIdx' = 1
    /\ spc' = IF Len(inputSockets) = 0 THEN "outputs" ELSE "uniforms"
    /\ UNCHANGED <<inputSockets, outputSockets, uniformBlock, inputBlock, outputBlock>>
    /\ UNCHANGED <<genLocals, batchVars>>

\* Publishes with the test of isEditable left out.
PublishesConnected(socket) == socket.connections > 0

\* The condition under which an input socket becomes a uniform.
Publishes(socket) == socket.connections > 0 /\ socket.editable

\* One round of the loop over the input sockets.
PublishInputSocket ==
    /\ spc = "uniforms"
    /\ LET socket == inputSockets[socketIdx] IN
        uniformBlock' = IF Publishes(socket) THEN add(uniformBlock, socket.name)
                        ELSE uniformBlock
    /\ IF socketIdx < Len(inputSockets)
       THEN socketIdx' = socketIdx + 1 /\ spc' = "uniforms"
       ELSE socketIdx' = 1 /\ spc' = "outputs"
    /\ UNCHANGED <<inputSockets, outputSockets, inputBlock, outputBlock>>
    /\ UNCHANGED <<genLocals, batchVars>>

\* One round of the loop over the output sockets.
PublishOutputSocket ==
    /\ spc = "outputs"
    /\ socketIdx <= Len(outputSockets)
    /\ outputBlock' = add(outputBlock, outputSockets[socketIdx].name)
    /\ socketIdx' = socketIdx + 1
    /\ UNCHANGED <<inputSockets, outputSockets, uniformBlock, inputBlock, spc>>
    /\ UNCHANGED <<genLocals, batchVars>>

ReturnCreated ==
    /\ spc = "outputs"
    /\ socketIdx > Len(outputSockets)
    /\ spc' = "done"
    /\ UNCHANGED <<inputSockets, outputSockets, uniformBlock, inputBlock, outputBlock,
                   socketIdx>>
    /\ UNCHANGED <<genLocals, batchVars>>

NextShader ==
    \/ CreateStage
    \/ CreateVariables
    \/ PublishInputSocket
    \/ PublishOutputSocket
    \/ ReturnCreated

SpecShader == InitShader /\ [][NextShader]_vars

\* ------------------------------------------------------------------------
\* LibsToOso: main
\* ------------------------------------------------------------------------

\* The most NodeDefs a library document holds.
MaxDefs == 3

DefNames == {Str_ND \o <<"a">>, Str_ND \o <<"b">>, <<"a">>, Str_ND}
Prefixes == {Str_empty, <<"p">>}

\* The documents of n NodeDefs: the children of a document have distinct names.
Catalogs(n) ==
    {c \in [1..n -> [name : DefNames, impl : BOOLEAN]] :
        \A a, b \in 1..n : c[a].name = c[b].name => a = b}

\* What --outputPath names before the run: a directory, nothing yet where
\* createDirectory can make one, or something it cannot make a directory of.
OutputDirKinds == {"directory", "creatable", "uncreatable"}

\* The name derived for a NodeDef: the "ND_" prefix removed, --prefix put in
\* front.
PublicName(defName, prefix) ==
    IF prefix # Str_empty THEN prefix \o <<"_">> \o StripND(defName)
    ELSE StripND(defName)

\* The names of the children of librariesDoc.
ChildNames == {catalog[i].name : i \in 1..Len(catalog)} \cup instances

InitBatch ==
    /\ argPaths \in [outputDir : OutputDirKinds, compilerExists : BOOLEAN,
                   includeIsDir : BOOLEAN, made : {FALSE}]
    /\ catalog \in UNION {Catalogs(n) : n \in 0..MaxDefs}
    /\ argPrefix \in Prefixes
    /\ instances = {}
    /\ bpc = "setup"
    /\ defIdx = 1
    /\ nodeName = Str_empty
    /\ logState = "unopened"
    /\ logFile = <<>>
    /\ hasFailed = FALSE
    /\ oslFiles = {}
    /\ osoFiles = {}
    /\ librariesLoaded = FALSE
    /\ exitCode = "none"
    /\ events = <<>>
    /\ GenIdle

\* SetupValid with the check of the include path left out.
SetupValidNoInclude(outputDir, compilerExists, includeIsDir) ==
    /\ outputDir \in {"directory", "creatable"}
    /\ compilerExists

\* Whether the three path checks pass.
SetupValid(outputDir, compilerExists, includeIsDir) ==
    /\ outputDir \in {"directory", "creatable"}
    /\ compilerExists
    /\ includeIsDir

\* The path checks, and on success everything up to the loop: the libraries
\* are loaded and the log file is opened.
Setup ==
    /\ bpc = "setup"
    /\ argPaths' = [argPaths EXCEPT !.made = argPaths.outputDir = "creatable"]
    /\ IF SetupValid(argPaths.outputDir, argPaths.compilerExists, argPaths.includeIsDir)
       THEN /\ librariesLoaded' = TRUE
            /\ logState' = "open"
            /\ bpc' = "loop"
            /\ UNCHANGED exitCode
       ELSE /\ exitCode' = "1"
            /\ bpc' = "exited"
            /\ UNCHANGED <<librariesLoaded, logState>>
    /\ UNCHANGED <<catalog, argPrefix, instances, defIdx, nodeName, logFile, hasFailed,
                   oslFiles, osoFiles, events>>
    /\ UNCHANGED genVars

\* The name of the source file: oslFileName = nodeName + ".osl".
OslFileName(name) == name \o <<".", "o", "s", "l">>

\* One step of the loop body: the NodeDef, the step, how it ended and the
\* name the step was given.
Event(step, ok, name) == [def |-> defIdx, step |-> step, ok |-> ok, name |-> name]

\* HasImplementation with the test for an implementation left out.
HasImplementationUnchecked(def) == TRUE

\* nodeDef->getImplementation(oslShaderGen->getTarget()) is non-null.
HasImplementation(def) == def.impl

\* A NodeDef without an implementation for the target: the skip notice.
SkipDef ==
    /\ bpc = "loop"
    /\ defIdx <= Len(catalog)
    /\ ~HasImplementation(catalog[defIdx])
    /\ LET name == PublicName(catalog[defIdx].name, argPrefix) IN
        /\ nodeName' = name
        /\ logFile' = Append(logFile, [kind |-> "skip", name |-> name])
        /\ events' = Append(events, Event("skip", TRUE, name))
    /\ defIdx' = defIdx + 1
    /\ UNCHANGED <<catalog, argPrefix, instances, bpc, logState, hasFailed, oslFiles,
                   osoFiles, librariesLoaded, exitCode>>
    /\ UNCHANGED argPaths
    /\ UNCHANGED genVars

\* Document::addNodeInstance: a child of that name makes it throw, outside
\* the try block.
AddThrows(name) == name \in ChildNames

\* A NodeDef with an implementation: the temporary node instance is added.
AddInstance ==
    /\ bpc = "loop"
    /\ defIdx <= Len(catalog)
    /\ HasImplementation(catalog[defIdx])
    /\ LET name == PublicName(catalog[defIdx].name, argPrefix) IN
        /\ nodeName' = name
        /\ IF AddThrows(name)
           THEN /\ exitCode' = "terminate"
                /\ bpc' = "exited"
                /\ events' = Append(events, Event("add", FALSE, name))
                /\ UNCHANGED instances
           ELSE /\ instances' = instances \cup {name}
                /\ bpc' = "generate"
                /\ events' = Append(events, Event("add", TRUE, name))
                /\ UNCHANGED exitCode
    /\ UNCHANGED <<catalog, argPrefix, defIdx, logState, logFile, hasFailed, oslFiles,
                   osoFiles, librariesLoaded>>
    /\ UNCHANGED argPaths
    /\ UNCHANGED genVars

\* The catch blocks: the entry written to the log.
CatchEntry(kind, name) == [kind |-> kind, name |-> name]

\* oslShaderGen->generate: it returns a shader or throws an Exception.
Generate ==
    /\ bpc = "generate"
    /\ \E ok \in BOOLEAN :
        /\ events' = Append(events, Event("generate", ok, nodeName))
        /\ IF ok
           THEN /\ bpc' = "write"
                /\ UNCHANGED <<logFile, hasFailed>>
           ELSE /\ logFile' = Append(logFile, CatchEntry("exception", nodeName))
                /\ hasFailed' = TRUE
                /\ bpc' = "remove"
    /\ UNCHANGED <<catalog, argPrefix, instances, defIdx, nodeName, logState, oslFiles,
                   osoFiles, librariesLoaded, exitCode>>
    /\ UNCHANGED argPaths
    /\ UNCHANGED genVars

\* The .osl file is opened, written and closed.  The stream reports nothing:
\* the statement after it runs whether or not the file was written.
WriteFile ==
    /\ bpc = "write"
    /\ \E ok \in BOOLEAN :
        /\ events' = Append(events, Event("write", ok, OslFileName(nodeName)))
        /\ oslFiles' = IF ok THEN oslFiles \cup {OslFileName(nodeName)} ELSE oslFiles
        /\ bpc' = "compile"
    /\ UNCHANGED <<catalog, argPrefix, instances, defIdx, nodeName, logState, logFile,
                   hasFailed, osoFiles, librariesLoaded, exitCode>>
    /\ UNCHANGED argPaths
    /\ UNCHANGED genVars

\* oslRenderer->compileOSL on the path of the .osl file: it returns or throws
\* an ExceptionRenderError.  After a write that failed the compiler reads what
\* the path held before (a file of an earlier run, or nothing), so either can
\* happen then too.
Compile ==
    /\ bpc = "compile"
    /\ \E ok \in BOOLEAN :
        /\ events' = Append(events, Event("compile", ok, OslFileName(nodeName)))
        /\ IF ok
           THEN /\ osoFiles' = osoFiles \cup {nodeName}
                /\ UNCHANGED <<logFile, hasFailed>>
           ELSE /\ logFile' = Append(logFile, CatchEntry("renderError", nodeName))
                /\ hasFailed' = TRUE
                /\ UNCHANGED osoFiles
    /\ bpc' = "remove"
    /\ UNCHANGED <<catalog, argPrefix, instances, defIdx, nodeName, logState, oslFiles,
                   librariesLoaded, exitCode>>
    /\ UNCHANGED argPaths
    /\ UNCHANGED genVars

\* removeChild that removes nothing.
removeChildNothing(children, name) == children

\* Document::removeChild.
removeChild(children, name) == children \ {name}

\* librariesDoc->removeChild(node->getName()), after the try and its catch
\* blocks.
RemoveInstance ==
    /\ bpc = "remove"
    /\ instances' = removeChild(instances, nodeName)
    /\ events' = Append(events, Event("remove", TRUE, nodeName))
    /\ defIdx' = defIdx + 1
    /\ bpc' = "loop"
    /\ UNCHANGED <<catalog, argPrefix, nodeName, logState, logFile, hasFailed, oslFiles,
                   osoFiles, librariesLoaded, exitCode>>
    /\ UNCHANGED argPaths
    /\ UNCHANGED genVars

\* The code returned after the loop.
ExitCodeOf(failed) == IF failed THEN "1" ELSE "0"

\* After the loop: the log is closed and the code returned.
Finish ==
    /\ bpc = "loop"
    /\ defIdx > Len(catalog)
    /\ logState' = "closed"
    /\ exitCode' = ExitCodeOf(hasFailed)
    /\ bpc' = "exited"
    /\ UNCHANGED <<catalog, argPrefix, instances, defIdx, nodeName, logFile, hasFailed,
                   oslFiles, osoFiles, librariesLoaded, events>>
    /\ UNCHANGED argPaths
    /\ UNCHANGED genVars

NextBatch ==
    \/ Setup
    \/ SkipDef
    \/ AddInstance
    \/ Generate
    \/ WriteFile
    \/ Compile
    \/ RemoveInstance
    \/ Finish

SpecBatch == InitBatch /\ [][NextBatch]_vars

\* ------------------------------------------------------------------------
\* Properties of generate
\* ------------------------------------------------------------------------

LinesOf(text, kind) == {i \in 1..Len(text) : text[i].kind = kind}

\* The declaration of the setCi wrapper.
SinkDeclaration == shaderString(Str_setCi, Str_root)

\* The declarations of the nodes of the graph: every "shader" line but the
\* wrapper's.
NodeDeclarations(text) == {i \in LinesOf(text, "shader") : text[i] # SinkDeclaration}
SinkDeclarations(text) == {i \in LinesOf(text, "shader") : text[i] = SinkDeclaration}

\* C1, as stated: in the text emitted by generate every connect line comes
\* after every shader line, in both revisions and with the wrapper on or off.
C1_ConnectAfterEveryShader ==
    \A i \in LinesOf(stage, "connect"), j \in LinesOf(stage, "shader") : j < i

\* C1, amended: every connect line comes after the declaration of every node of
\* the graph; where no wrapper is emitted every shader line comes before every
\* connect line; the wrapper's declaration is the last but one line, followed
\* only by the wrapper's own connect line.
C1_ConnectAfterNodeDeclarations ==
    /\ \A i \in LinesOf(stage, "connect"), j \in NodeDeclarations(stage) : j < i
    /\ ~WantsSink(variant, sinkFlag) => C1_ConnectAfterEveryShader
    /\ \A j \in SinkDeclarations(stage) :
        /\ WantsSink(variant, sinkFlag)
        /\ j = Len(stage) - 1
        /\ stage[Len(stage)].kind = "connect"
        /\ stage[Len(stage)].toNode = Str_root

\* C1, the case: a shader returned with the wrapper on and a deferred connect
\* line in its text.
C1_Witness ==
    /\ result = "shader"
    /\ WantsSink(variant, sinkFlag)
    /\ \E i \in LinesOf(stage, "connect") : stage[i].toNode # Str_root

\* C7, as stated: the text of a returned shader holds as many shader lines as
\* the graph has nodes, and the instance names are the node names, one each
\* (read on the graphs that have a node: the empty graph with the wrapper on
\* reads an uninitialised pointer).
C7_DeclarationsAreNodes ==
    (result = "shader" /\ Len(graph) > 0) =>
        /\ Cardinality(LinesOf(stage, "shader")) = Len(graph)
        /\ \A n \in 1..Len(graph) :
            Cardinality({j \in LinesOf(stage, "shader") : stage[j].inst = graph[n].name}) = 1

\* C7, amended: the shader lines other than the wrapper's declaration are as
\* many as the nodes and name each node once; the wrapper adds one declaration
\* when it is on, and none otherwise.
C7_NodeDeclarationsAreNodes ==
    result = "shader" =>
        /\ Cardinality(NodeDeclarations(stage)) = Len(graph)
        /\ \A n \in 1..Len(graph) :
            Cardinality({j \in NodeDeclarations(stage) : stage[j].inst = graph[n].name}) = 1
        /\ Cardinality(SinkDeclarations(stage))
            = IF WantsSink(variant, sinkFlag) THEN 1 ELSE 0

\* C7, the case: a shader returned for a graph of two nodes with the wrapper on.
C7_Witness ==
    /\ result = "shader"
    /\ Len(graph) = 2
    /\ WantsSink(variant, sinkFlag)
    /\ Cardinality(LinesOf(stage, "shader")) = 3

\* Whether a node of the graph has no Implementation for the target.
LacksImplementation == \E n \in 1..Len(graph) : document[graph[n].nodeDefName] # "impl"

InputOf(h) == graph[h.node].inputs[h.input]

\* The connect lines of a text that lead into input `input` of node `node`,
\* under its name as it is or sanitised.
ConnectLinesInto(text, node, input) ==
    {i \in LinesOf(text, "connect") :
        /\ text[i].toNode = node.name
        /\ text[i].toName \in {input.name, makeValidName(input.name)}}

\* C8, as stated (read on the inputs not marked has-default, which are C10's):
\* in the text of a returned shader an input connected to the output of
\* another node of the graph has no param line and exactly one connect line,
\* from that node's output to it.
C8_ConnectedInputConnects ==
    result = "shader" =>
        \A k \in 1..Len(history) :
            LET h == history[k]
                input == InputOf(h)
                node == graph[h.node]
                up == graph[input.conn.node]
            IN (input.conn.kind = "node" /\ ~input.isDefault) =>
                /\ h.kind = "connect"
                /\ Cardinality(ConnectLinesInto(stage, node, input)) = 1
                /\ \A i \in ConnectLinesInto(stage, node, input) :
                    /\ stage[i].fromNode = up.name
                    /\ stage[i].fromName \in {up.output.name, makeValidName(up.output.name)}

\* C9, as stated (read on the inputs the algorithm of the specification emits:
\* not marked has-default, name outside the exclusion set): an input with a
\* literal and no connection, or a connection from the graph boundary,
\* produces one param line holding its type, name and literal, and no connect
\* line.
C9_UnconnectedLiteralIsParam ==
    \A k \in 1..Len(history) :
        LET h == history[k]
            input == InputOf(h)
        IN (/\ input.conn.kind \in {"null", "graph"}
            /\ input.value # NoValue
            /\ ~input.isDefault
            /\ input.name \notin ExcludedNames) =>
            /\ h.kind = "param"
            /\ h.lines[1].type = getTypeName(input.type)
            /\ h.lines[1].name \in {input.name, makeValidName(input.name)}
            /\ h.lines[1].value = input.value

\* The lines the inner loop has produced so far are those the text and the
\* deferred list hold: the param lines are in the text, the connect lines in
\* the deferred list and, once flushed, in the text.
RECURSIVE HistoryLines(_, _)
HistoryLines(hs, kind) ==
    IF hs = <<>> THEN <<>>
    ELSE (IF hs[1].kind = kind THEN hs[1].lines ELSE <<>>) \o HistoryLines(Tail(hs), kind)

IsSinkConnect(line) == line.kind = "connect" /\ line.toNode = Str_root
IsParam(line) == line.kind = "param"
IsNodeConnect(line) == line.kind = "connect" /\ line.toNode # Str_root

\* C10: an input marked has-default produces nothing, whatever its literal,
\* name and connection: its round of the inner loop emits no line, every param
\* line of the text and every deferred or emitted connect line comes from an
\* input not marked has-default, and no connect line leads into it.
C10_DefaultInputEmitsNothing ==
    /\ \A k \in 1..Len(history) :
        InputOf(history[k]).isDefault => history[k].kind = "skip"
    /\ SelectSeq(stage, IsParam) = HistoryLines(history, "param")
    /\ connections = HistoryLines(history, "connect")
    /\ SelectSeq(stage, IsNodeConnect) \in {<<>>, connections}
    /\ \A n \in 1..Len(graph) : \A j \in 1..Len(graph[n].inputs) :
        graph[n].inputs[j].isDefault =>
            ConnectLinesInto(stage \o connections, graph[n], graph[n].inputs[j]) = {}

\* C10, the case: a shader returned for a graph with an input marked
\* has-default that carries a literal and is connected to another node.
C10_Witness ==
    /\ result = "shader"
    /\ \E k \in 1..Len(history) :
        /\ InputOf(history[k]).isDefault
        /\ InputOf(history[k]).conn.kind = "node"
        /\ InputOf(history[k]).value # NoValue

\* The instances declared by the shader statements before position i.
DeclaredBefore(text, i) == {text[j].inst : j \in {k \in LinesOf(text, "shader") : k < i}}

\* Every connection of the graph leads from an earlier node to a later one.
TopologicalOrder(g) ==
    \A n \in 1..Len(g) : \A j \in 1..Len(g[n].inputs) :
        g[n].inputs[j].conn.kind = "node" => g[n].inputs[j].conn.node < n

\* C16, as stated: for a graph in topological order, every connect statement
\* of the emitted text, the wrapper's included, has as its source and as its
\* destination an instance that a shader statement earlier in the text
\* declares.
C16_DeclareBeforeConnect ==
    TopologicalOrder(graph) =>
        \A i \in LinesOf(stage, "connect") :
            /\ stage[i].fromNode \in DeclaredBefore(stage, i)
            /\ stage[i].toNode \in DeclaredBefore(stage, i)

\* One sequence is the beginning of the other.
IsPrefix(a, b) == Len(a) <= Len(b) /\ SubSeq(b, 1, Len(a)) = a

\* The rounds of the inner loop come in graph order, and within a node in the
\* declared order of its inputs.
InDiscoveryOrder(hs) ==
    \A k, l \in 1..Len(hs) : k < l =>
        \/ hs[k].node < hs[l].node
        \/ hs[k].node = hs[l].node /\ hs[k].input < hs[l].input

\* The deferred list holds, in the order of the rounds, one line for each
\* round that found a connection to another node, leading into that round's
\* input; and until the pass over the nodes has ended none of them is in the
\* text, after which the text holds each of them once, in the order of the
\* list.
DeferredListFlushedOnce ==
    /\ InDiscoveryOrder(history)
    /\ connections = HistoryLines(history, "connect")
    /\ \A k \in 1..Len(history) : history[k].kind = "connect" =>
        /\ InputOf(history[k]).conn.kind = "node"
        /\ history[k].lines[1].toNode = graph[history[k].node].name
        /\ makeValidName(history[k].lines[1].toName)
            = makeValidName(InputOf(history[k]).name)
    /\ gpc \in {"input", "declare", "flush"} => SelectSeq(stage, IsNodeConnect) = <<>>
    /\ gpc \in {"sink", "attr", "return"} => SelectSeq(stage, IsNodeConnect) = connections
    /\ result = "shader" => SelectSeq(stage, IsNodeConnect) = connections

\* C17: the deferred list only ever grows at its end during the pass over the
\* nodes; its lines are in discovery order (graph order of the nodes, declared
\* order of the inputs of a node); none of them is emitted before the pass has
\* ended, and then each is emitted once, in the order of the list.
C17_DeferredConnections ==
    /\ []DeferredListFlushedOnce
    /\ [][IsPrefix(connections, connections')]_vars

\* C17, the case: a shader returned with three deferred connect lines in its
\* text, two of them into the inputs of one node.
C17_Witness ==
    /\ result = "shader"
    /\ Len(connections) = 3
    /\ connections[1].toNode = connections[2].toNode
    /\ connections[3].toNode # connections[1].toNode
    /\ SelectSeq(stage, IsNodeConnect) = connections

\* The wrapper's two statements for a graph: the declaration of "root" and the
\* connection into it from the primary output of the last node.
SinkStatements(g) ==
    << SinkDeclaration,
       connectString(g[Len(g)].name, g[Len(g)].output.name, Str_root,
                     g[Len(g)].output.type \o Str_input) >>

\* The text of a shader ends with the wrapper's two statements and holds no
\* other statement of the wrapper.
EndsWithSink(text, g) ==
    /\ Len(g) > 0
    /\ Len(text) >= 2
    /\ SubSeq(text, Len(text) - 1, Len(text)) = SinkStatements(g)
    /\ Cardinality(SinkDeclarations(text)) = 1
    /\ Len(SelectSeq(text, IsSinkConnect)) = 1

\* C18, as stated (for the revision that has the wrapper, on graphs whose
\* nodes all have an implementation): with the flag on, generate returns a
\* shader whose text ends with 'shader setCi root ;' and one connection from
\* the primary output of the last node to root.<type>_input, and holds no
\* other such statement, for every graph, the empty one included; with the
\* flag off the text holds neither.
C18_SinkWrapper ==
    (variant = "genoslnodes" /\ ~LacksImplementation /\ gpc = "done") =>
        /\ result = "shader"
        /\ IF sinkFlag
           THEN EndsWithSink(stage, graph)
           ELSE SinkDeclarations(stage) = {} /\ SelectSeq(stage, IsSinkConnect) = <<>>

\* The names of the fixed exclusion set, and the no-op value.
FixedExclusions == {Str_backsurfaceshader, Str_displacementshader}
IsNoOp(input) == getValue(input) = "null_closure()"

\* What C21 says of one round of the inner loop.
SilentSkipRule(h) ==
    LET input == InputOf(h)
    IN ~input.isDefault =>
        /\ input.conn.kind \in {"null", "graph"} =>
            /\ h.kind \in {"skip", "param"}
            /\ h.kind = "skip" <=> (input.name \in FixedExclusions \/ IsNoOp(input))
        /\ (input.conn.kind = "node" /\ input.name \in FixedExclusions) =>
            h.kind = "connect"

\* C21, as stated: an input that is not marked has-default and has no
\* connection to another node is passed over, without a param statement and
\* without an error, exactly when its name is backsurfaceshader or
\* displacementshader or its resolved value is null_closure(); an input of
\* such a name that is connected to another node gets its connect statement.
C21_SilentSkips == \A k \in 1..Len(history) : SilentSkipRule(history[k])

\* ------------------------------------------------------------------------
\* Properties of the batch driver
\* ------------------------------------------------------------------------

Eligible == {i \in 1..Len(catalog) : catalog[i].impl}

Took(i, step, ok) ==
    \E k \in 1..Len(events) :
        events[k].def = i /\ events[k].step = step /\ events[k].ok = ok

StepsOf(i) == {k \in 1..Len(events) : events[k].def = i}

\* The NodeDef was generated, written and compiled without error.
Clean(i) == Took(i, "generate", TRUE) /\ Took(i, "write", TRUE) /\ Took(i, "compile", TRUE)

\* A step of the NodeDef's try block failed.
FailedStep(i) ==
    Took(i, "generate", FALSE) \/ Took(i, "write", FALSE) \/ Took(i, "compile", FALSE)

IsSkipNotice(entry) == entry.kind = "skip"
IsFailureEntry(entry) == entry.kind \in {"exception", "renderError"}

\* main has returned (it did not end in an uncaught exception).
Returned == bpc = "exited" /\ exitCode \in {"0", "1"}

\* C2, as stated: main returns 0 exactly when the path checks passed and every
\* NodeDef with an implementation was generated, written and compiled without
\* error; a NodeDef that failed generation or compilation makes it return 1,
\* whatever the NodeDefs after it do.
C2_ExitCodeContract ==
    Returned =>
        /\ exitCode = "0" <=> (librariesLoaded /\ \A i \in Eligible : Clean(i))
        /\ (\E i \in Eligible : Took(i, "generate", FALSE) \/ Took(i, "compile", FALSE))
            => exitCode = "1"

\* C3, as stated: a failure of the generation, of the write or of the compiler
\* call for a NodeDef leaves a log entry for it and marks the run failed, and
\* the NodeDefs after it are still processed; with one of N eligible NodeDefs
\* failing, N-1 compiler calls succeed, one failure is logged and 1 is
\* returned.
C3_FailuresAreIsolated ==
    (Returned /\ librariesLoaded) =>
        /\ \A i \in Eligible : FailedStep(i) =>
            /\ hasFailed
            /\ exitCode = "1"
            /\ \E k \in 1..Len(logFile) :
                /\ IsFailureEntry(logFile[k])
                /\ logFile[k].name = PublicName(catalog[i].name, argPrefix)
        /\ Len(SelectSeq(logFile, IsFailureEntry))
            = Cardinality({i \in Eligible : FailedStep(i)})
        /\ \A i \in 1..Len(catalog) : Took(i, "skip", TRUE) \/ Took(i, "remove", TRUE)
        /\ Cardinality({i \in Eligible : FailedStep(i)}) = 1 =>
            Cardinality({i \in Eligible : Took(i, "compile", TRUE)})
                = Cardinality(Eligible) - 1

C6_InstanceIsTransient ==
    /\ Cardinality(instances) <= 1
    /\ bpc \in {"setup", "loop", "exited"} => instances = {}
    /\ bpc \in {"generate", "write", "compile", "remove"} => instances = {nodeName}

\* C6, the case: the run over after a failed generation, a failed write and a
\* failed compiler call, each followed by the removal of the instance.
C6_Witness ==
    /\ bpc = "exited"
    /\ instances = {}
    /\ \E i, j, k \in Eligible :
        /\ Took(i, "generate", FALSE) /\ Took(i, "remove", TRUE)
        /\ Took(j, "write", FALSE) /\ Took(j, "remove", TRUE)
        /\ Took(k, "compile", FALSE) /\ Took(k, "remove", TRUE)
        /\ i # j

\* ------------------------------------------------------------------------
\* Properties of calls of generate on graphs whose nodes share NodeDefs
\* ------------------------------------------------------------------------

\* The NodeDefs of the nodes of a graph, in visit order.
NodeDefsOf(g) == [i \in 1..Len(g) |-> g[i].nodeDefName]

\* The set the outer loop builds from the NodeDefs visited in this order.
RECURSIVE OsoPathsOf(_)
OsoPathsOf(defs) ==
    IF defs = <<>> THEN {}
    ELSE insert(OsoPathsOf(SubSeq(defs, 1, Len(defs) - 1)), ImplFile(defs[Len(defs)]))

\* The attribute generate sets after visiting the NodeDefs in this order.
AttributeOf(defs) == JoinPaths(OsoPathsOf(defs), <<>>)

\* Every order the same nodes can be visited in.
Orders(defs) ==
    {[i \in 1..Len(defs) |-> defs[p[i]]] :
        p \in {q \in [1..Len(defs) -> 1..Len(defs)] :
                \A a, b \in 1..Len(defs) : q[a] = q[b] => a = b}}

CountOf(text, c) == Cardinality({i \in 1..Len(text) : text[i] = c})

\* C11: the set of implementation files generate records holds each file of a
\* node of the graph once, however many nodes share it, and the attribute
\* joined from it is the same for every order the nodes can be visited in: it
\* has one comma-separated entry for each file.
C11_IncludePathsAreASet ==
    (variant = "genoslnodes" /\ result = "shader") =>
        LET defs == NodeDefsOf(graph)
            files == {ImplFile(defs[i]) : i \in 1..Len(defs)}
        IN /\ osoPaths = files
           /\ osoPath = AttributeOf(defs)
           /\ \A o \in Orders(defs) : AttributeOf(o) = osoPath
           /\ CountOf(osoPath, ",") = IF files = {} THEN 0 ELSE Cardinality(files) - 1

\* C11, the case: a shader returned for three nodes of which the first and the
\* last share an implementation file that sorts after the second's.
C11_Witness ==
    /\ variant = "genoslnodes"
    /\ result = "shader"
    /\ Len(graph) = 3
    /\ graph[1].nodeDefName = graph[3].nodeDefName
    /\ StringLess(ImplFile(graph[2].nodeDefName), ImplFile(graph[1].nodeDefName))
    /\ CountOf(osoPath, ",") = 1

\* The second of two calls of generate by the generator of one target has
\* ended.
SecondCallEnded == gpc = "done" /\ previous # NoRun /\ previous.variant = variant

\* C13, as stated: a second call of generate on the unchanged graph with the
\* same options comes to what the first came to: the same text, statement for
\* statement, and the same osoPath attribute.
C13_GenerateTwice ==
    (SecondCallEnded /\ previous.result = "shader") =>
        /\ result = "shader"
        /\ stage = previous.stage
        /\ osoPath = previous.osoPath

\* The calls in which generate reads through no null or uninitialised pointer:
\* the graph has a node or the wrapper is off, every NodeDef has an
\* implementation element, and in the "genosl" revision no input with a
\* literal lacks a connection.
ReadsAreDefined ==
    /\ (Len(graph) = 0 => ~sinkFlag)
    /\ \A n \in 1..Len(graph) :
        /\ document[graph[n].nodeDefName] # "none"
        /\ \A j \in 1..Len(graph[n].inputs) :
            LET input == graph[n].inputs[j]
            IN ~(input.conn.kind = "null" /\ input.value # NoValue /\ ~input.isDefault)

\* Where every read is defined, a second call by the generator of the same
\* target comes to what the first came to.
GenerateTwiceWhereDefined ==
    (ReadsAreDefined /\ SecondCallEnded) =>
        /\ result = previous.result
        /\ Delivered = previous.stage
        /\ osoPath = previous.osoPath

\* A statement without what the two revisions name differently: the entry
\* point of a shader statement is left out and the port names are sanitised.
Unnamed(line) ==
    IF line.kind = "shader" THEN [kind |-> "shader", inst |-> line.inst]
    ELSE IF line.kind = "param"
         THEN [kind |-> "param", type |-> line.type, name |-> makeValidName(line.name),
               value |-> line.value]
         ELSE [kind |-> "connect", fromNode |-> line.fromNode,
               fromName |-> makeValidName(line.fromName), toNode |-> line.toNode,
               toName |-> makeValidName(line.toName)]

UnnamedText(text) == [i \in 1..Len(text) |-> Unnamed(text[i])]

\* C15, as stated: with the wrapper off, the generators of the two targets,
\* called on the same graph, return texts that are the same statement for
\* statement but for the entry points of the shader statements and the
\* sanitising of names; so both have a param line for the same inputs and a
\* connect line for the same inputs.
C15_RevisionsAgree ==
    (/\ gpc = "done"
     /\ previous # NoRun
     /\ previous.variant # variant
     /\ ~sinkFlag
     /\ previous.result = "shader"
     /\ result = "shader") =>
        UnnamedText(stage) = UnnamedText(previous.stage)

\* ------------------------------------------------------------------------
\* Properties of createShader
\* ------------------------------------------------------------------------

IsPublished(socket) == socket.connections > 0 /\ socket.editable

\* The names of a list of sockets, in order.
NamesOf(sockets) == [i \in 1..Len(sockets) |-> sockets[i].name]

\* C12: the shader createShader returns has in its uniform block the input
\* sockets of the graph that have at least one connection and are editable,
\* and no other; in its output block every output socket of the graph,
\* connected or not; and an input block without any socket.  No socket gets
\* into a block it does not belong to on the way.
C12_PublishedInterface ==
    /\ spc = "done" =>
        /\ uniformBlock = [exists |-> TRUE,
                           ports |-> NamesOf(SelectSeq(inputSockets, IsPublished))]
        /\ outputBlock = [exists |-> TRUE, ports |-> NamesOf(outputSockets)]
        /\ inputBlock = [exists |-> TRUE, ports |-> <<>>]
    /\ inputBlock.ports = <<>>
    /\ \A i \in 1..Len(uniformBlock.ports) : \E k \in 1..Len(inputSockets) :
        /\ inputSockets[k].name = uniformBlock.ports[i]
        /\ IsPublished(inputSockets[k])
    /\ \A i \in 1..Len(outputBlock.ports) : \E k \in 1..Len(outputSockets) :
        outputSockets[k].name = outputBlock.ports[i]

\* C12, the case: createShader has returned for a graph with a connected and
\* editable input socket, a connected input socket that is not editable, and
\* an output socket nothing is connected to.
C12_Witness ==
    /\ spc = "done"
    /\ Len(uniformBlock.ports) = 1
    /\ \E k \in 1..Len(inputSockets) :
        inputSockets[k].connections > 0 /\ ~inputSockets[k].editable
    /\ \E k \in 1..Len(outputSockets) :
        /\ ~outputSockets[k].connected
        /\ \E i \in 1..Len(outputBlock.ports) :
            outputBlock.ports[i] = outputSockets[k].name

\* ------------------------------------------------------------------------
\* Further properties of the batch driver
\* ------------------------------------------------------------------------

\* One of the three path checks of main fails on these paths.
SetupFails ==
    \/ argPaths.outputDir = "uncreatable"
    \/ ~argPaths.compilerExists
    \/ ~argPaths.includeIsDir

\* Nothing of the work after the path checks has been done.
NoWorkDone ==
    /\ ~librariesLoaded
    /\ logState = "unopened"
    /\ logFile = <<>>
    /\ events = <<>>
    /\ instances = {}
    /\ oslFiles = {}
    /\ osoFiles = {}
    /\ defIdx = 1
    /\ ~hasFailed

\* C14: when the output directory is missing and cannot be created, the
\* compiler path does not exist, or the include path is missing or no
\* directory, main returns 1 straight from the path checks: no library is
\* loaded, the log file is not opened, no NodeDef is processed, no file is
\* written and the compiler is not called.  Only a run whose path checks pass
\* does any of that.
C14_SetupFailureDoesNothing ==
    /\ (SetupFails /\ bpc # "setup") =>
        /\ bpc = "exited"
        /\ exitCode = "1"
        /\ NoWorkDone
    /\ bpc = "setup" => NoWorkDone
    /\ ~NoWorkDone => ~SetupFails

\* C14, the case: main has returned 1 on an include path that is no directory,
\* the other two paths being in order and the library holding three NodeDefs.
C14_Witness ==
    /\ bpc = "exited"
    /\ exitCode = "1"
    /\ argPaths.outputDir = "creatable"
    /\ argPaths.made
    /\ argPaths.compilerExists
    /\ ~argPaths.includeIsDir
    /\ Len(catalog) = 3
    /\ NoWorkDone

\* The NodeDefs whose .osl file this run has written, and those whose .oso
\* file its compiler calls have produced.
Written == {i \in 1..Len(catalog) : Took(i, "write", TRUE)}
Compiled == {i \in 1..Len(catalog) : Took(i, "compile", TRUE)}

\* C19, as stated: two NodeDefs of the library never derive the same name, so
\* the files written and compiled for two NodeDefs are different files: the
\* run leaves one .osl file for each NodeDef it wrote and one .oso file for
\* each it compiled.
C19_UniqueFileNames ==
    /\ \A i, j \in Written : i # j =>
        PublicName(catalog[i].name, argPrefix) # PublicName(catalog[j].name, argPrefix)
    /\ Cardinality(oslFiles) = Cardinality(Written)
    /\ Cardinality(osoFiles) = Cardinality(Compiled)

\* The place of a step in an iteration.
Rank(step) ==
    CASE step = "skip" -> 0
      [] step = "add" -> 1
      [] step = "generate" -> 2
      [] step = "write" -> 3
      [] step = "compile" -> 4
      [] step = "remove" -> 5

\* The steps taken for NodeDef i come in the order of an iteration.
StepsInOrder(i) ==
    \A k, l \in StepsOf(i) : k < l => Rank(events[k].step) < Rank(events[l].step)

\* Before step k, the same NodeDef took the step `step` with this outcome.
TookBefore(k, step, ok) ==
    \E j \in 1..(k - 1) :
        events[j].def = events[k].def /\ events[j].step = step /\ events[j].ok = ok

\* C20, as stated: the steps for a NodeDef with an implementation come in the
\* order add, generate, write, compile, remove, the iterations one after the
\* other; the compiler is called for a NodeDef only after its generation
\* succeeded and its source file was written in that iteration, and never for
\* a NodeDef whose generation failed; the instance is removed last.
C20_StepOrder ==
    /\ \A i \in 1..Len(catalog) : StepsInOrder(i)
    /\ \A k, l \in 1..Len(events) : k < l => events[k].def <= events[l].def
    /\ \A k \in 1..Len(events) :
        /\ events[k].step = "generate" => TookBefore(k, "add", TRUE)
        /\ events[k].step = "write" => TookBefore(k, "generate", TRUE)
        /\ events[k].step = "compile" =>
            /\ TookBefore(k, "generate", TRUE)
            /\ TookBefore(k, "write", TRUE)
        /\ events[k].step = "remove" => TookBefore(k, "add", TRUE)
    /\ \A i \in 1..Len(catalog) :
        Took(i, "generate", FALSE) => ~Took(i, "compile", TRUE) /\ ~Took(i, "compile", FALSE)


\* ------------------------------------------------------------------------
\* Properties of the names the batch driver derives
\* ------------------------------------------------------------------------

\* The name C22 describes, written out character by character.
HasNDPrefix(defName) ==
    /\ Len(defName) >= 3
    /\ defName[1] = "N" /\ defName[2] = "D" /\ defName[3] = "_"

DerivedStem(defName) ==
    IF HasNDPrefix(defName) /\ Len(defName) > 3
    THEN [i \in 1..(Len(defName) - 3) |-> defName[i + 3]]
    ELSE defName

DerivedName(defName) ==
    IF Len(argPrefix) > 0 THEN argPrefix \o <<"_">> \o DerivedStem(defName)
    ELSE DerivedStem(defName)

DerivedOf(i) == DerivedName(catalog[i].name)

\* The notices of the log, in the order of the NodeDefs they are about.
NoticeSteps ==
    {k \in 1..Len(events) :
        \/ events[k].step = "skip"
        \/ events[k].step \in {"generate", "compile"} /\ ~events[k].ok}

\* C22: the name of a NodeDef is its name without a leading "ND_" when more
\* than three characters long ("ND_" itself and names without the prefix stay
\* as they are), with "<prefix>_" in front when --prefix is not empty; the
\* skip notice, the node instance, the shader (the name handed to generate)
\* and the file "<name>.osl" all carry that one name.
C22_OneDerivedName ==
    /\ \A k \in 1..Len(events) :
        LET name == DerivedOf(events[k].def) IN
            /\ events[k].step \in {"skip", "add", "generate", "remove"} =>
                events[k].name = name
            /\ events[k].step \in {"write", "compile"} =>
                events[k].name = name \o <<".", "o", "s", "l">>
    /\ \A e \in {logFile[j] : j \in 1..Len(logFile)} :
        \E k \in NoticeSteps : e.name = DerivedOf(events[k].def)
    /\ instances \subseteq {DerivedOf(i) : i \in 1..Len(catalog)}
    /\ bpc \in {"generate", "write", "compile", "remove"} =>
        instances = {DerivedOf(defIdx)}
    /\ oslFiles =
        {DerivedOf(events[k].def) \o <<".", "o", "s", "l">> :
            k \in {j \in 1..Len(events) : events[j].step = "write" /\ events[j].ok}}

\* A run with --prefix p over "ND_" (no implementation) and "ND_a": the notice
\* names p_ND_, the shader p_a, the file p_a.osl.
C22_Witness ==
    /\ bpc = "exited"
    /\ argPrefix = <<"p">>
    /\ \E j \in 1..Len(logFile) :
        logFile[j] = [kind |-> "skip", name |-> <<"p", "_", "N", "D", "_">>]
    /\ \E k \in 1..Len(events) :
        /\ catalog[events[k].def].name = <<"N", "D", "_", "a">>
        /\ events[k].step = "generate"
        /\ events[k].ok
        /\ events[k].name = <<"p", "_", "a">>
    /\ <<"p", "_", "a", ".", "o", "s", "l">> \in oslFiles
=============================================================================
